---------------------------- MODULE Spec2Model ----------------------------
(***************************************************************************)
(* PlexRelay (src/app.py): a polling bridge that fetches a stream catalog  *)
(* and per-stream playback URLs, caches them in three module globals and   *)
(* on disk, and renders an M3U playlist and an XMLTV guide on request.     *)
(*                                                                         *)
(* Threads: the main thread (startup), the scheduler's worker thread and   *)
(* the web server's request threads.  The globals cached_data,             *)
(* cached_mpegts_urls and last_fetch_time are shared by all of them; the   *)
(* lock fetch_lock is created and never acquired, so it is no part of the  *)
(* state.                                                                  *)
(***************************************************************************)
EXTENDS Integers, Sequences, FiniteSets, TLC

(***************************************************************************)
(* Bounds of the model.                                                    *)
(***************************************************************************)
\* refresh cycles started in one run (also the range of the clock)
MaxCycles == 2
\* streams in a Catalog drawn for the generators
MaxStreams == 2

(***************************************************************************)
(* Values.  A JSON null or a missing key is None; a missing string key is  *)
(* AbsentStr; a start or end time that is no number is BadTime.            *)
(***************************************************************************)
None == -1
BadTime == -2
AbsentStr == "<absent>"
T1 == 1700000000
T2 == 1700010000

\* Python truthiness of an id or time value: None, 0 and "" are false
Truthy(v) == v # None /\ v # 0

\* str(v) of an id or time value
Str(v) ==
    IF v = BadTime THEN "tbd" ELSE IF v = None THEN "None" ELSE ToString(v)

\* the module-level cached_data = None
NoData == [none |-> TRUE]

\* the module-level cached_mpegts_urls = {}
EmptyDict == [k \in {} |-> ""]

\* d[key] = value on a dict
DictSet(d, key, value) ==
    [k \in DOMAIN d \cup {key} |-> IF k = key THEN value ELSE d[k]]

\* d.get(key), "" standing for None
DictGet(d, key) == IF key \in DOMAIN d THEN d[key] ELSE ""

Stream(id, name, starts_at, ends_at, poster, category_name, tag) ==
    [id |-> id, name |-> name, starts_at |-> starts_at, ends_at |-> ends_at,
     poster |-> poster, category_name |-> category_name, tag |-> tag]

Category(category, streams) == [category |-> category, streams |-> streams]

Catalog(categories) == [success |-> TRUE, streams |-> categories]

(***************************************************************************)
(* format_xmltv_time: epoch seconds to "YYYYMMDDHHMMSS +0000" in UTC.      *)
(***************************************************************************)
Pad2(n) == IF n < 10 THEN "0" \o ToString(n) ELSE ToString(n)

Pad4(n) ==
    IF n < 10 THEN "000" \o ToString(n)
    ELSE IF n < 100 THEN "00" \o ToString(n)
    ELSE IF n < 1000 THEN "0" \o ToString(n)
    ELSE ToString(n)

\* datetime.fromtimestamp(ts, tz=utc) for ts >= 0: the proleptic Gregorian
\* date of day number ts \div 86400, and the time of day
CivilFromDays(days) ==
    LET z == days + 719468
        era == z \div 146097
        doe == z - era * 146097
        yoe == (doe - doe \div 1460 + doe \div 36524 - doe \div 146096) \div 365
        doy == doe - (365 * yoe + yoe \div 4 - yoe \div 100)
        mp == (5 * doy + 2) \div 153
        d == doy - (153 * mp + 2) \div 5 + 1
        m == IF mp < 10 THEN mp + 3 ELSE mp - 9
        y == yoe + era * 400 + (IF m <= 2 THEN 1 ELSE 0)
    IN  [year |-> y, month |-> m, day |-> d]

\* '%Y%m%d%H%S%M +0000': seconds before minutes
StrftimeSecondsBeforeMinutes(ts) ==
    LET date == CivilFromDays(ts \div 86400)
        secs == ts % 86400
    IN  Pad4(date.year) \o Pad2(date.month) \o Pad2(date.day)
        \o Pad2(secs \div 3600) \o Pad2(secs % 60) \o Pad2((secs % 3600) \div 60)
        \o " +0000"

Strftime(ts) ==
    LET date == CivilFromDays(ts \div 86400)
        secs == ts % 86400
    IN  Pad4(date.year) \o Pad2(date.month) \o Pad2(date.day)
        \o Pad2(secs \div 3600) \o Pad2((secs % 3600) \div 60) \o Pad2(secs % 60)
        \o " +0000"

format_xmltv_time(unix_timestamp) ==
    IF ~Truthy(unix_timestamp) THEN ""
    ELSE IF unix_timestamp = BadTime THEN ""
    ELSE Strftime(unix_timestamp)

(***************************************************************************)
(* The channel identifier: sha256 of "{name}_{start_time}" as an integer,  *)
(* mod 10^10, in decimal.  Sha256Mod holds the digests of the base strings *)
(* the model's names and start times form.                                 *)
(***************************************************************************)
Sha256Mod(base) ==
    CASE base = "Lakers vs Celtics_0" -> "8293272806"
      [] base = "Lakers vs Celtics_1700000000" -> "7782732900"
      [] base = "Lakers vs Celtics_1700010000" -> "3713577633"
      [] base = "Lakers vs Celtics_tbd" -> "9205399526"
      [] base = "Jets_0" -> "9568640474"
      [] base = "Jets_1700000000" -> "2112034818"
      [] base = "Jets_1700010000" -> "7546991887"
      [] base = "Jets_tbd" -> "8451723757"
      [] base = "Heat vs Knicks_0" -> "3873293317"
      [] base = "Heat vs Knicks_1700000000" -> "8888102915"
      [] base = "Heat vs Knicks_1700010000" -> "1462776851"
      [] base = "Heat vs Knicks_tbd" -> "5394383392"
      [] base = "_0" -> "5283538222"
      [] base = "_1700000000" -> "8782794729"
      [] base = "_1700010000" -> "8153292244"
      [] base = "_tbd" -> "5235596854"

\* start_time = stream.get('starts_at') or '0'; base_string = f"{name}_{start_time}"
BaseString(name, starts_at) ==
    name \o "_" \o (IF Truthy(starts_at) THEN Str(starts_at) ELSE "0")

\* a tvg_id that leaves the start time out of the base string
M3uTvgIdNameOnly(stream) == Sha256Mod(BaseString(stream.name, 0))

\* generate_m3u's tvg_id
M3uTvgId(stream) == Sha256Mod(BaseString(stream.name, stream.starts_at))

\* generate_xmltv's channel_id
XmltvChannelId(stream) == Sha256Mod(BaseString(stream.name, stream.starts_at))

\* name.replace(' ', '_').lower() is empty exactly when name is
SlugIsEmpty(name) == name = ""


(***************************************************************************)
(* The Streams of a Catalog in iteration order (Categories in order, the   *)
(* Streams of each in order): the nested for loops of lines 172-173,       *)
(* 273-276 and 327-329.  src is the place of the Stream in the Catalog.    *)
(***************************************************************************)
RECURSIVE ItemsFrom(_, _)
ItemsFrom(categories, ci) ==
    IF ci > Len(categories) THEN << >>
    ELSE [si \in 1..Len(categories[ci].streams) |->
             [category |-> categories[ci].category,
              stream |-> categories[ci].streams[si],
              src |-> <<ci, si>>]]
         \o ItemsFrom(categories, ci + 1)

Items(catalog) == IF catalog = NoData THEN << >> ELSE ItemsFrom(catalog.streams, 1)

(***************************************************************************)
(* generate_m3u, lines 269-304: the playlist as a sequence of lines.       *)
(***************************************************************************)
\* an entry for every Stream with a name, without the test of line 292
M3uEntryWithoutUrlTest(item, urls) ==
    LET stream == item.stream
        category_name ==
            IF item.category = AbsentStr THEN "Unknown Category" ELSE item.category
        tvg_id == M3uTvgId(stream)
        mpegts_url ==
            IF Truthy(stream.id) THEN DictGet(urls, Str(stream.id)) ELSE ""
    IN  IF SlugIsEmpty(stream.name) THEN << >>
        ELSE << [kind |-> "extinf", tvg_id |-> tvg_id, tvg_name |-> stream.name,
                 tvg_logo |-> stream.poster, group_title |-> category_name,
                 title |-> stream.name, src |-> item.src],
                [kind |-> "url", url |-> mpegts_url, src |-> item.src] >>

\* the lines one Stream adds to m3u_content (lines 277-301)
M3uEntry(item, urls) ==
    LET stream == item.stream
        category_name ==
            IF item.category = AbsentStr THEN "Unknown Category" ELSE item.category
        name == stream.name
        tvg_id == M3uTvgId(stream)
        stream_name == IF name # "" THEN name ELSE "Stream " \o tvg_id
        mpegts_url ==
            IF Truthy(stream.id) THEN DictGet(urls, Str(stream.id)) ELSE ""
    IN  IF SlugIsEmpty(name) THEN << >>
        ELSE IF mpegts_url # ""
        THEN << [kind |-> "extinf", tvg_id |-> tvg_id, tvg_name |-> stream_name,
                 tvg_logo |-> stream.poster, group_title |-> category_name,
                 title |-> stream_name, src |-> item.src],
                [kind |-> "url", url |-> mpegts_url, src |-> item.src] >>
        ELSE << >>

\* the loop of lines 272-301 putting each entry right after the header
RECURSIVE M3uLoopNewestFirst(_, _, _, _)
M3uLoopNewestFirst(items, i, urls, m3u_content) ==
    IF i > Len(items) THEN m3u_content
    ELSE M3uLoopNewestFirst(items, i + 1, urls,
                            << Head(m3u_content) >> \o M3uEntry(items[i], urls)
                                \o Tail(m3u_content))

RECURSIVE M3uLoop(_, _, _, _)
M3uLoop(items, i, urls, m3u_content) ==
    IF i > Len(items) THEN m3u_content
    ELSE M3uLoop(items, i + 1, urls, m3u_content \o M3uEntry(items[i], urls))

M3uContent(catalog, urls) ==
    M3uLoop(Items(catalog), 1, urls, << [kind |-> "header", text |-> "#EXTM3U"] >>)

(***************************************************************************)
(* generate_xmltv, lines 316-383: the children of the <tv> root, in        *)
(* document order.                                                         *)
(***************************************************************************)
\* a channel record for every Stream, without the test of line 349
XmltvChannelForEveryStream(item, seen_channel_ids) ==
    << [kind |-> "channel", id |-> XmltvChannelId(item.stream),
        display_name |-> item.stream.name, icon |-> item.stream.poster,
        src |-> item.src] >>

\* the channel record a Stream adds (lines 349-354)
XmltvChannel(item, seen_channel_ids) ==
    LET stream == item.stream
        channel_id == XmltvChannelId(stream)
        stream_name == IF stream.name # "" THEN stream.name ELSE "Stream " \o channel_id
    IN  IF channel_id \notin seen_channel_ids
        THEN << [kind |-> "channel", id |-> channel_id, display_name |-> stream_name,
                 icon |-> stream.poster, src |-> item.src] >>
        ELSE << >>

\* a programme record as soon as one of the two times formats: `or` for the
\* `and` of line 359
XmltvProgrammeWithEitherTime(item) ==
    LET stream == item.stream
        start_time_str == format_xmltv_time(stream.starts_at)
        end_time_str == format_xmltv_time(stream.ends_at)
    IN  IF start_time_str # "" \/ end_time_str # ""
        THEN << [kind |-> "programme", start |-> start_time_str, stop |-> end_time_str,
                 channel |-> XmltvChannelId(stream), title |-> stream.name,
                 desc |-> "", icon |-> stream.poster, category |-> "",
                 src |-> item.src] >>
        ELSE << >>

\* the programme record a Stream adds (lines 356-375)
XmltvProgramme(item) ==
    LET stream == item.stream
        channel_id == XmltvChannelId(stream)
        stream_name == IF stream.name # "" THEN stream.name ELSE "Stream " \o channel_id
        category_name ==
            IF stream.category_name # AbsentStr THEN stream.category_name
            ELSE IF item.category # AbsentStr THEN item.category
            ELSE "Unknown"
        start_time_str == format_xmltv_time(stream.starts_at)
        end_time_str == format_xmltv_time(stream.ends_at)
        description ==
            IF stream.tag # "" THEN category_name \o " - " \o stream.tag
            ELSE category_name
    IN  IF start_time_str # "" /\ end_time_str # ""
        THEN << [kind |-> "programme", start |-> start_time_str, stop |-> end_time_str,
                 channel |-> channel_id, title |-> stream_name, desc |-> description,
                 icon |-> stream.poster, category |-> category_name,
                 src |-> item.src] >>
        ELSE << >>

RECURSIVE XmltvLoop(_, _, _, _)
XmltvLoop(items, i, seen_channel_ids, tv_root) ==
    IF i > Len(items) THEN tv_root
    ELSE IF SlugIsEmpty(items[i].stream.name)
    THEN XmltvLoop(items, i + 1, seen_channel_ids, tv_root)
    ELSE XmltvLoop(items, i + 1,
                   seen_channel_ids \cup {XmltvChannelId(items[i].stream)},
                   tv_root \o XmltvChannel(items[i], seen_channel_ids)
                           \o XmltvProgramme(items[i]))

XmltvContent(catalog) == XmltvLoop(Items(catalog), 1, {}, << >>)

(***************************************************************************)
(* The remote APIs.  A response is what requests.get and response.json()   *)
(* give the caller: a transport failure, a non-2xx status, a body that is  *)
(* no JSON, or a JSON document.                                            *)
(***************************************************************************)
Urls == {"http://x/a.ts", "http://x/b.ts"}

CatalogA ==
    Catalog(<< Category("NBA",
                 << Stream(1, "Lakers vs Celtics", T1, T2, "p.png", AbsentStr, ""),
                    Stream(None, "Jets", T1, None, "", AbsentStr, "") >>) >>)

CatalogB ==
    Catalog(<< Category("NFL", << Stream(2, "Jets", 0, T2, "", AbsentStr, "") >>),
               Category("NBA", << Stream(0, "Jets", None, T2, "", "NFL", "live") >>) >>)

\* a day without events
CatalogC == Catalog(<< Category("NBA", << >>) >>)

ApiCatalogs == {CatalogA, CatalogB}

CatalogResponses ==
    { [kind |-> k, json |-> NoData] : k \in {"timeout", "http_error", "bad_json"} }
    \cup { [kind |-> "json", json |-> [success |-> FALSE, streams |-> << >>]] }
    \cup { [kind |-> "json", json |-> c] : c \in ApiCatalogs }

DetailResponses ==
    { [kind |-> k, success |-> FALSE, has_data |-> FALSE, vip_mpegts |-> ""] :
          k \in {"timeout", "network_error", "http_error", "bad_json", "bad_shape"} }
    \cup { [kind |-> "json", success |-> FALSE, has_data |-> TRUE, vip_mpegts |-> u] :
               u \in Urls }
    \cup { [kind |-> "json", success |-> TRUE, has_data |-> FALSE, vip_mpegts |-> ""],
           [kind |-> "json", success |-> TRUE, has_data |-> TRUE, vip_mpegts |-> ""] }
    \cup { [kind |-> "json", success |-> TRUE, has_data |-> TRUE, vip_mpegts |-> u] :
               u \in Urls }

\* get_mpegts_url sends a request unless the token is missing
DetailRequestSent(auth_token) == auth_token # ""

\* get_mpegts_url without the test of line 116
get_mpegts_url_without_success_test(auth_token, response) ==
    IF ~DetailRequestSent(auth_token) THEN ""
    ELSE IF response.kind # "json" THEN ""
    ELSE IF ~response.has_data THEN ""
    ELSE response.vip_mpegts

\* get_mpegts_url, lines 93-149: the URL returned, "" standing for None
get_mpegts_url(auth_token, response) ==
    IF ~DetailRequestSent(auth_token) THEN ""
    ELSE IF response.kind # "json" THEN ""
    ELSE IF ~response.success THEN ""
    ELSE IF ~response.has_data THEN ""
    ELSE response.vip_mpegts

\* lines 162-166: the catalog fetch succeeded
CatalogFetchOk(response) == response.kind = "json" /\ response.json.success

(***************************************************************************)
(* The state.                                                              *)
(***************************************************************************)
Web == {"web1"}
Threads == {"main", "sched"} \cup Web

VARIABLES
    \* the module globals
    cached_data, cached_mpegts_urls, last_fetch_time, AUTH_TOKEN,
    \* the two files under DATA_DIR
    cache_file, mpegts_cache_file,
    \* each thread: where it is, what it runs, its locals
    pc, task, data, iter, idx,
    \* the HTTP response the last step sent, if it sent one
    resp,
    \* history: the refresh cycles started; per thread, the number of its
    \* cycle, whether the catalog fetch succeeded, the requests it sent, the
    \* URLs get_mpegts_url returned, whether no other cycle ran during it,
    \* and, until its catalog fetch succeeds, the globals when it started
    ncycles, cycle, outcome, nreq, fetched, alone, before,
    \* history: the cycle that assigned cached_data, the cycle that created
    \* the dict in cached_mpegts_urls, and whether that cycle's loop is over
    dataCycle, urlsCycle, urlsDone,
    \* history: the cycle that last wrote each of the two files
    cacheFileCycle, mpegtsFileCycle

globals == <<cached_data, cached_mpegts_urls, last_fetch_time>>
files == <<cache_file, mpegts_cache_file>>
locals == <<data, iter, idx>>
history == <<ncycles, cycle, outcome, nreq, fetched, alone, before>>
origin == <<dataCycle, urlsCycle, urlsDone>>
stamps == <<cacheFileCycle, mpegtsFileCycle>>
vars == <<globals, AUTH_TOKEN, files, pc, task, locals, resp, history, origin, stamps>>

\* time.time(): the clock moves with the cycles started
Now == ncycles + 1

NoFile == [state |-> "absent"]
NoResp == [status |-> 0, route |-> "none", thread |-> "none", body |-> << >>]
NoBefore == [none |-> TRUE]

\* a response leaves the process before any thread takes its next step
Quiet == resp = NoResp /\ UNCHANGED resp

\* a thread inside fetch_and_cache_data
RefreshPcs == {"fetch", "l168", "l169", "l172", "loop", "save1", "save2", "ret"}
Refreshing(p) == pc[p] \in RefreshPcs
Serving == pc["main"] = "serving"

\* `not cached_data`
DataTruthy(d) == d # NoData

(***************************************************************************)
(* Startup, lines 386-415.                                                 *)
(***************************************************************************)
\* the Snapshot a previous run left on disk
DiskUrls == [k \in {"1"} |-> "http://x/a.ts"]
InitCacheFiles == {NoFile, [state |-> "ok", content |-> CatalogA]}
InitMpegtsFiles == {NoFile, [state |-> "ok", content |-> DiskUrls]}

InitThreads ==
    /\ task = [p \in Threads |-> "none"]
    /\ data = [p \in Threads |-> NoData]
    /\ iter = [p \in Threads |-> << >>]
    /\ idx = [p \in Threads |-> 0]
    /\ resp = NoResp
    /\ ncycles = 0
    /\ cycle = [p \in Threads |-> 0]
    /\ outcome = [p \in Threads |-> "none"]
    /\ nreq = [p \in Threads |-> 0]
    /\ fetched = [p \in Threads |-> << >>]
    /\ alone = [p \in Threads |-> TRUE]
    /\ before = [p \in Threads |-> NoBefore]
    /\ dataCycle = 0
    /\ urlsCycle = 0
    /\ urlsDone = TRUE
    /\ cacheFileCycle = 0
    /\ mpegtsFileCycle = 0

\* the module is loaded: lines 24 and 45-47
InitProgram ==
    /\ cached_data = NoData
    /\ cached_mpegts_urls = EmptyDict
    /\ last_fetch_time = 0
    /\ AUTH_TOKEN \in {"", "token"}
    /\ pc = [p \in Threads |-> IF p = "main" THEN "load" ELSE "idle"]
    /\ InitThreads

\* DATA_DIR holds the two documents of an earlier run, or none
Init ==
    /\ InitProgram
    /\ cache_file \in InitCacheFiles
    /\ mpegts_cache_file \in InitMpegtsFiles
    /\ (cache_file = NoFile) <=> (mpegts_cache_file = NoFile)

\* load_from_cache, lines 68-85: a file that does not parse raises, and the
\* handler at line 84 ends the function there
LoadedData(cfile, current) == IF cfile.state = "ok" THEN cfile.content ELSE current

LoadedUrls(cfile, mfile, current) ==
    IF cfile.state # "corrupt" /\ mfile.state = "ok" THEN mfile.content ELSE current

\* os.path.getmtime(CACHE_FILE): the file was written before this run
\* started, at a time that is not 0
Getmtime(cfile) == 1

LoadedTime(cfile, mfile, loaded, current) ==
    IF cfile.state # "corrupt" /\ mfile.state # "corrupt" /\ DataTruthy(loaded)
    THEN Getmtime(cfile)
    ELSE current

load_from_cache ==
    /\ pc["main"] = "load"
    /\ cached_data' = LoadedData(cache_file, cached_data)
    /\ cached_mpegts_urls' = LoadedUrls(cache_file, mpegts_cache_file, cached_mpegts_urls)
    /\ last_fetch_time' = LoadedTime(cache_file, mpegts_cache_file,
                                     LoadedData(cache_file, cached_data), last_fetch_time)
    /\ pc' = [pc EXCEPT !["main"] = "boot"]
    /\ Quiet
    /\ UNCHANGED <<AUTH_TOKEN, files, stamps, task, locals, history, origin>>

(***************************************************************************)
(* fetch_and_cache_data, lines 152-196, one step per statement that reads  *)
(* or writes a global or a file.                                           *)
(***************************************************************************)
\* a thread enters fetch_and_cache_data and sends the catalog request
Start(p, t) ==
    /\ ncycles < MaxCycles
    /\ pc' = [pc EXCEPT ![p] = "fetch"]
    /\ task' = [task EXCEPT ![p] = t]
    /\ ncycles' = ncycles + 1
    /\ cycle' = [cycle EXCEPT ![p] = ncycles + 1]
    /\ outcome' = [outcome EXCEPT ![p] = "none"]
    /\ nreq' = [nreq EXCEPT ![p] = 1]
    /\ fetched' = [fetched EXCEPT ![p] = << >>]
    /\ alone' = [q \in Threads |->
                    IF q = p THEN \A r \in Threads \ {p} : ~Refreshing(r)
                    ELSE IF Refreshing(q) THEN FALSE ELSE alone[q]]
    /\ before' = [before EXCEPT ![p] =
                     [cached_data |-> cached_data,
                      cached_mpegts_urls |-> cached_mpegts_urls,
                      last_fetch_time |-> last_fetch_time]]
    /\ Quiet
    /\ UNCHANGED <<globals, AUTH_TOKEN, files, stamps, locals, origin>>

\* lines 162-166 fail: the handlers at 191-196 log, and the function returns
CatalogFail(p) ==
    /\ pc[p] = "fetch"
    /\ \E response \in CatalogResponses : ~CatalogFetchOk(response)
    /\ pc' = [pc EXCEPT ![p] = "ret"]
    /\ outcome' = [outcome EXCEPT ![p] = "failed"]
    /\ Quiet
    /\ UNCHANGED <<globals, AUTH_TOKEN, files, stamps, task, locals, origin,
                   ncycles, cycle, nreq, fetched, alone, before>>

\* lines 162-167
CatalogOk(p, response) ==
    /\ pc[p] = "fetch"
    /\ CatalogFetchOk(response)
    /\ data' = [data EXCEPT ![p] = response.json]
    /\ cached_data' = response.json
    /\ dataCycle' = cycle[p]
    /\ pc' = [pc EXCEPT ![p] = "l168"]
    /\ outcome' = [outcome EXCEPT ![p] = "ok"]
    /\ before' = [before EXCEPT ![p] = NoBefore]
    /\ Quiet
    /\ UNCHANGED <<cached_mpegts_urls, last_fetch_time, AUTH_TOKEN, files, stamps, task,
                   iter, idx, urlsCycle, urlsDone,
                   ncycles, cycle, nreq, fetched, alone>>

\* line 168
SetFetchTime(p) ==
    /\ pc[p] = "l168"
    /\ last_fetch_time' = Now
    /\ pc' = [pc EXCEPT ![p] = "l169"]
    /\ Quiet
    /\ UNCHANGED <<cached_data, cached_mpegts_urls, AUTH_TOKEN, files, stamps, task, locals,
                   history, origin>>

\* line 169 left out: the cycle goes on with the dict it found
ClearUrlsKeepsEntries(p) ==
    /\ pc[p] = "l169"
    /\ urlsCycle' = cycle[p]
    /\ urlsDone' = FALSE
    /\ pc' = [pc EXCEPT ![p] = "l172"]
    /\ Quiet
    /\ UNCHANGED <<globals, AUTH_TOKEN, files, stamps, task, locals, history, dataCycle>>

\* line 169
ClearUrls(p) ==
    /\ pc[p] = "l169"
    /\ cached_mpegts_urls' = EmptyDict
    /\ urlsCycle' = cycle[p]
    /\ urlsDone' = FALSE
    /\ pc' = [pc EXCEPT ![p] = "l172"]
    /\ Quiet
    /\ UNCHANGED <<cached_data, last_fetch_time, AUTH_TOKEN, files, stamps, task, locals,
                   history, dataCycle>>

\* the loop is over: the dict is complete if it is this cycle's
LoopDone(p) == IF urlsCycle = cycle[p] THEN TRUE ELSE urlsDone

\* lines 172-173: the loops start over the Catalog cached_data names now
LoopStart(p) ==
    /\ pc[p] = "l172"
    /\ iter' = [iter EXCEPT ![p] = Items(cached_data)]
    /\ idx' = [idx EXCEPT ![p] = 1]
    /\ pc' = [pc EXCEPT ![p] = IF Items(cached_data) = << >> THEN "save1" ELSE "loop"]
    /\ urlsDone' = IF Items(cached_data) = << >> THEN LoopDone(p) ELSE urlsDone
    /\ Quiet
    /\ UNCHANGED <<globals, AUTH_TOKEN, files, stamps, task, data, history,
                   dataCycle, urlsCycle>>

\* what get_mpegts_url can return for a Stream: nothing is asked for a
\* Stream without an id (line 175)
DetailResults(stream, auth_token) ==
    IF Truthy(stream.id)
    THEN { get_mpegts_url(auth_token, response) : response \in DetailResponses }
    ELSE {""}

\* lines 174-178 for one Stream: the body of the inner loop
PrefetchUrls(urls, stream, mpegts_url) ==
    LET stream_id == stream.id
    IN  IF Truthy(stream_id) /\ mpegts_url # ""
        THEN DictSet(urls, Str(stream_id), mpegts_url)
        ELSE urls

Prefetch(p) ==
    /\ pc[p] = "loop"
    /\ \E mpegts_url \in DetailResults(iter[p][idx[p]].stream, AUTH_TOKEN) :
       LET stream == iter[p][idx[p]].stream
           sent == Truthy(stream.id) /\ DetailRequestSent(AUTH_TOKEN)
       IN  /\ cached_mpegts_urls' = PrefetchUrls(cached_mpegts_urls, stream, mpegts_url)
           /\ nreq' = [nreq EXCEPT ![p] = IF sent THEN @ + 1 ELSE @]
           /\ fetched' = [fetched EXCEPT ![p] =
                             IF Truthy(stream.id) /\ mpegts_url # ""
                             THEN Append(@, [src |-> iter[p][idx[p]].src,
                                             url |-> mpegts_url])
                             ELSE @]
    /\ idx' = [idx EXCEPT ![p] = @ + 1]
    /\ pc' = [pc EXCEPT ![p] = IF idx[p] = Len(iter[p]) THEN "save1" ELSE "loop"]
    /\ urlsDone' = IF idx[p] = Len(iter[p]) THEN LoopDone(p) ELSE urlsDone
    /\ Quiet
    /\ UNCHANGED <<cached_data, last_fetch_time, AUTH_TOKEN, files, stamps, task, data, iter,
                   ncycles, cycle, outcome, alone, before, dataCycle, urlsCycle>>

\* a write of one file: open(..., 'w') fails and leaves the file as it was,
\* json.dump fails and leaves it truncated, or the document is written
WriteOutcomes == {"ok", "open_failed", "dump_failed"}

\* a write that leaves a document that is already there
WrittenKeepsExisting(file, content, result) ==
    CASE result = "ok" -> IF file.state = "ok" THEN file
                          ELSE [state |-> "ok", content |-> content]
      [] result = "open_failed" -> file
      [] result = "dump_failed" -> [state |-> "corrupt"]

Written(file, content, result) ==
    CASE result = "ok" -> [state |-> "ok", content |-> content]
      [] result = "open_failed" -> file
      [] result = "dump_failed" -> [state |-> "corrupt"]

\* the cycle whose document a file holds after a write; a truncated file
\* holds no document
FileCycle(stamp, c, result) ==
    CASE result = "ok" -> c
      [] result = "open_failed" -> stamp
      [] result = "dump_failed" -> 0

\* lines 182-183
SaveCatalog(p, result) ==
    /\ pc[p] = "save1"
    /\ cache_file' = Written(cache_file, cached_data, result)
    /\ cacheFileCycle' = FileCycle(cacheFileCycle, cycle[p], result)
    /\ pc' = [pc EXCEPT ![p] = IF result = "ok" THEN "save2" ELSE "ret"]
    /\ Quiet
    /\ UNCHANGED <<globals, AUTH_TOKEN, mpegts_cache_file, mpegtsFileCycle, task, locals,
                   history, origin>>

\* lines 184-185
SaveUrls(p, result) ==
    /\ pc[p] = "save2"
    /\ mpegts_cache_file' = Written(mpegts_cache_file, cached_mpegts_urls, result)
    /\ mpegtsFileCycle' = FileCycle(mpegtsFileCycle, cycle[p], result)
    /\ pc' = [pc EXCEPT ![p] = "ret"]
    /\ Quiet
    /\ UNCHANGED <<globals, AUTH_TOKEN, cache_file, cacheFileCycle, task, locals,
                   history, origin>>

\* the history of a thread's cycle is dropped when its handler is done
Forget(p) ==
    /\ task' = [task EXCEPT ![p] = "none"]
    /\ data' = [data EXCEPT ![p] = NoData]
    /\ iter' = [iter EXCEPT ![p] = << >>]
    /\ idx' = [idx EXCEPT ![p] = 0]
    /\ cycle' = [cycle EXCEPT ![p] = 0]
    /\ outcome' = [outcome EXCEPT ![p] = "none"]
    /\ nreq' = [nreq EXCEPT ![p] = 0]
    /\ fetched' = [fetched EXCEPT ![p] = << >>]
    /\ alone' = [alone EXCEPT ![p] = TRUE]
    /\ before' = [before EXCEPT ![p] = NoBefore]
    /\ UNCHANGED ncycles

\* fetch_and_cache_data returns to the scheduler (line 403) or to the main
\* thread, which starts the scheduler and the server (lines 397-415)
Return(p) ==
    /\ pc[p] = "ret"
    /\ task[p] \in {"scheduled", "startup"}
    /\ pc' = [pc EXCEPT ![p] = IF task[p] = "startup" THEN "serving" ELSE "idle"]
    /\ Forget(p)
    /\ Quiet
    /\ UNCHANGED <<globals, AUTH_TOKEN, files, stamps, origin>>

\* lines 395-399: the initial fetch, if nothing was loaded
Boot ==
    /\ pc["main"] = "boot"
    /\ IF DataTruthy(cached_data)
       THEN /\ pc' = [pc EXCEPT !["main"] = "serving"]
            /\ Quiet
            /\ UNCHANGED <<globals, AUTH_TOKEN, files, stamps, task, locals, history, origin>>
       ELSE Start("main", "startup")

\* the scheduler's interval job, lines 402-409
ScheduledRefresh ==
    /\ Serving
    /\ pc["sched"] = "idle"
    /\ Start("sched", "scheduled")

(***************************************************************************)
(* The routes.  A handler that only reads the globals is one step.         *)
(***************************************************************************)
Respond(p, status, route, body) ==
    /\ resp = NoResp
    /\ resp' = [status |-> status, route |-> route, thread |-> p, body |-> body]

Deliver ==
    /\ resp # NoResp
    /\ resp' = NoResp
    /\ UNCHANGED <<globals, AUTH_TOKEN, files, stamps, pc, task, locals, history, origin>>

\* /refresh, lines 252-256
RefreshRequest(p) ==
    /\ Serving
    /\ pc[p] = "idle"
    /\ Start(p, "refresh")

\* manual_refresh, line 257
manual_refresh(p) ==
    /\ pc[p] = "ret"
    /\ task[p] = "refresh"
    /\ Respond(p, 302, "refresh", << >>)
    /\ pc' = [pc EXCEPT ![p] = "idle"]
    /\ Forget(p)
    /\ UNCHANGED <<globals, AUTH_TOKEN, files, stamps, origin>>

\* index, lines 202-251: what the status page shows
IndexBody(catalog, fetch_time, auth_token, now) ==
    << [kind |-> "status",
        status |-> IF DataTruthy(catalog) THEN "OK"
                   ELSE "Error: Main stream list data not cached",
        data_age |-> IF fetch_time # 0 THEN now - fetch_time ELSE None,
        num_categories |-> IF DataTruthy(catalog) THEN Len(catalog.streams) ELSE 0,
        num_streams |-> Len(Items(catalog)),
        auth_status |-> auth_token # ""] >>

index(p) ==
    /\ Serving
    /\ pc[p] = "idle"
    /\ Respond(p, 200, "index",
               IndexBody(cached_data, last_fetch_time, AUTH_TOKEN, Now))
    /\ UNCHANGED <<globals, AUTH_TOKEN, files, stamps, pc, task, locals, history, origin>>

\* the two tests of lines 262-267 in the other order
M3uStatusTokenFirst(catalog, auth_token) ==
    IF auth_token = "" THEN 500
    ELSE IF ~DataTruthy(catalog) THEN 503
    ELSE 200

\* generate_m3u, lines 262-267: the status of the response
M3uStatus(catalog, auth_token) ==
    IF ~DataTruthy(catalog) THEN 503
    ELSE IF auth_token = "" THEN 500
    ELSE 200

generate_m3u(p) ==
    /\ Serving
    /\ pc[p] = "idle"
    /\ LET status == M3uStatus(cached_data, AUTH_TOKEN)
       IN  Respond(p, status, "m3u",
                   IF status = 200 THEN M3uContent(cached_data, cached_mpegts_urls)
                   ELSE << >>)
    /\ UNCHANGED <<globals, AUTH_TOKEN, files, stamps, pc, task, locals, history, origin>>

\* /epg.xml?force_refresh=1, lines 309-310
ForcedEpgRequest(p) ==
    /\ Serving
    /\ pc[p] = "idle"
    /\ Start(p, "epg_force")

\* generate_xmltv, lines 312-314: the status of the response
XmltvStatus(catalog) == IF ~DataTruthy(catalog) THEN 503 ELSE 200

\* the handler is at line 312: a request without the signal has arrived, or
\* the refresh of line 310 has returned
AtLine312(p) ==
    IF pc[p] = "idle" THEN Serving ELSE pc[p] = "ret" /\ task[p] = "epg_force"

generate_xmltv(p) ==
    /\ AtLine312(p)
    /\ LET status == XmltvStatus(cached_data)
       IN  Respond(p, status, "epg",
                   IF status = 200 THEN XmltvContent(cached_data) ELSE << >>)
    /\ pc' = [pc EXCEPT ![p] = "idle"]
    /\ Forget(p)
    /\ UNCHANGED <<globals, AUTH_TOKEN, files, stamps, origin>>

(***************************************************************************)
(* The program: startup, then the scheduler and the request threads run    *)
(* side by side.                                                           *)
(***************************************************************************)
Refresh(p) ==
    \/ CatalogFail(p)
    \/ \E response \in CatalogResponses : CatalogOk(p, response)
    \/ SetFetchTime(p)
    \/ ClearUrls(p)
    \/ LoopStart(p)
    \/ Prefetch(p)
    \/ \E result \in WriteOutcomes : SaveCatalog(p, result)
    \/ \E result \in WriteOutcomes : SaveUrls(p, result)

Next ==
    \/ load_from_cache
    \/ Boot
    \/ ScheduledRefresh
    \/ \E p \in Threads : Refresh(p)
    \/ \E p \in Threads : Return(p)
    \/ \E p \in Web : RefreshRequest(p)
    \/ \E p \in Web : manual_refresh(p)
    \/ \E p \in Web : ForcedEpgRequest(p)
    \/ \E p \in Web : index(p)
    \/ \E p \in Web : generate_m3u(p)
    \/ \E p \in Web : generate_xmltv(p)
    \/ Deliver

Spec == Init /\ [][Next]_vars

(***************************************************************************)
(* The generators over the cache states a run can start serving from:      *)
(* load_from_cache takes whatever pair of documents DATA_DIR holds, and a  *)
(* failed initial fetch leaves no Catalog.                                 *)
(***************************************************************************)
GenStreams ==
    { Stream(1, "Lakers vs Celtics", T1, T2, "p.png", AbsentStr, ""),
      Stream(2, "Lakers vs Celtics", T1, T2, "", AbsentStr, "HD"),
      Stream(1, "", T1, T2, "p.png", AbsentStr, ""),
      Stream(None, "Jets", 0, T2, "", AbsentStr, ""),
      Stream(0, "Jets", None, T2, "", AbsentStr, ""),
      Stream(2, "Jets", T1, BadTime, "", AbsentStr, ""),
      Stream(2, "Heat vs Knicks", BadTime, T2, "", AbsentStr, ""),
      Stream(1, "Heat vs Knicks", T2, None, "", "Playoffs", "") }

SeqsUpTo(S, n) == UNION { [1..k -> S] : k \in 0..n }

GenCatalogs ==
    { Catalog(<< Category("NBA", ss) >>) : ss \in SeqsUpTo(GenStreams, MaxStreams) }
    \cup { Catalog(<< Category("NBA", << Head(ss) >>), Category(AbsentStr, Tail(ss)) >>) :
               ss \in SeqsUpTo(GenStreams, MaxStreams) \ { << >> } }

\* the Snapshot of the spec's end-to-end scenario 1
Scenario1Catalog ==
    Catalog(<< Category("NBA",
                 << Stream(1, "Lakers vs Celtics", T1, T2, "p.png", AbsentStr, "") >>) >>)

Scenario1Urls == [k \in {"1"} |-> "http://x/stream.ts"]

GenUrlMaps ==
    UNION { [keys -> Urls] : keys \in SUBSET {"1", "2"} }
    \cup { [k \in {"0"} |-> "http://x/a.ts"] }
    \cup { Scenario1Urls }

InitGen ==
    /\ cached_data \in GenCatalogs \cup {NoData}
    /\ cached_mpegts_urls \in GenUrlMaps
    /\ last_fetch_time = IF DataTruthy(cached_data) THEN Getmtime(cache_file) ELSE 0
    /\ AUTH_TOKEN \in {"", "token"}
    /\ cache_file = IF DataTruthy(cached_data)
                    THEN [state |-> "ok", content |-> cached_data]
                    ELSE NoFile
    /\ mpegts_cache_file = IF cached_mpegts_urls # EmptyDict
                           THEN [state |-> "ok", content |-> cached_mpegts_urls]
                           ELSE NoFile
    /\ pc = [p \in Threads |-> IF p = "main" THEN "serving" ELSE "idle"]
    /\ InitThreads

NextGen ==
    \/ \E p \in Web : index(p)
    \/ \E p \in Web : generate_m3u(p)
    \/ \E p \in Web : generate_xmltv(p)
    \/ Deliver

SpecGen == InitGen /\ [][NextGen]_vars

(***************************************************************************)
(* Startup alone, lines 391-415: DATA_DIR holds any of the files an        *)
(* earlier run can leave, a truncated one included; the main thread loads  *)
(* them, runs the initial fetch if it has to, and the server answers.      *)
(***************************************************************************)
BootFiles(content) == {NoFile, [state |-> "ok", content |-> content], [state |-> "corrupt"]}

InitBoot ==
    /\ InitProgram
    /\ cache_file \in BootFiles(CatalogA)
    /\ mpegts_cache_file \in BootFiles(DiskUrls)

NextBoot ==
    \/ load_from_cache
    \/ Boot
    \/ Refresh("main")
    \/ Return("main")
    \/ \E p \in Web : index(p)
    \/ \E p \in Web : generate_m3u(p)
    \/ \E p \in Web : generate_xmltv(p)
    \/ Deliver

SpecBoot == InitBoot /\ [][NextBoot]_vars

(***************************************************************************)
(* The server of a run that found no files and whose initial fetch failed  *)
(* (lines 392-399): the cache is empty, the scheduler and the request      *)
(* threads run.  Cycles are counted from here.  The catalog API may also   *)
(* answer with a Catalog that has no Stream.                               *)
(***************************************************************************)
InitEmpty ==
    /\ cached_data = NoData
    /\ cached_mpegts_urls = EmptyDict
    /\ last_fetch_time = 0
    /\ AUTH_TOKEN \in {"", "token"}
    /\ cache_file = NoFile
    /\ mpegts_cache_file = NoFile
    /\ pc = [p \in Threads |-> IF p = "main" THEN "serving" ELSE "idle"]
    /\ InitThreads

NextEmpty ==
    \/ ScheduledRefresh
    \/ \E p \in Threads \ {"main"} : Refresh(p)
    \/ \E p \in Threads \ {"main"} : CatalogOk(p, [kind |-> "json", json |-> CatalogC])
    \/ Return("sched")
    \/ \E p \in Web : RefreshRequest(p)
    \/ \E p \in Web : manual_refresh(p)
    \/ \E p \in Web : ForcedEpgRequest(p)
    \/ \E p \in Web : index(p)
    \/ \E p \in Web : generate_m3u(p)
    \/ \E p \in Web : generate_xmltv(p)
    \/ Deliver

SpecEmpty == InitEmpty /\ [][NextEmpty]_vars

(***************************************************************************)
(* What the claims speak of.                                               *)
(***************************************************************************)
StreamAt(catalog, src) == catalog.streams[src[1]].streams[src[2]]

\* the places in Items(catalog) of the Streams with a name
Named(catalog) ==
    { i \in DOMAIN Items(catalog) : Items(catalog)[i].stream.name # "" }

\* the records of `body` of one kind
Records(body, kind) == { j \in DOMAIN body : body[j].kind = kind }

\* the records one Stream added
RecordsOf(body, kind, src) == { j \in Records(body, kind) : body[j].src = src }

PlaylistSent == resp.route = "m3u" /\ resp.status = 200
GuideSent == resp.route = "epg" /\ resp.status = 200

\* a thread between the first and the last statement of fetch_and_cache_data
Executing(p) == pc[p] \in RefreshPcs \ {"ret"}

\* fetch_and_cache_data is about to return from a cycle whose catalog fetch
\* succeeded and that no other cycle overlapped
CycleComplete(p) == pc[p] = "ret" /\ outcome[p] = "ok" /\ alone[p]

(***************************************************************************)
(* C1: a reader is given a Catalog and a Detail-URL Cache of one refresh   *)
(* cycle.  generate_m3u is the reader that reads both: whenever it sends a *)
(* playlist, the dict in cached_mpegts_urls was created by the cycle that  *)
(* assigned cached_data, and that cycle's loop has filled it.              *)
(***************************************************************************)
C1_ReadersSeeOneCycle == PlaylistSent => (dataCycle = urlsCycle /\ urlsDone)

(***************************************************************************)
(* C2: at most one thread executes fetch_and_cache_data at any time.       *)
(***************************************************************************)
C2_OneRefreshAtATime == Cardinality({ p \in Threads : Executing(p) }) <= 1

(***************************************************************************)
(* C3: when fetch_and_cache_data returns from a cycle whose catalog fetch  *)
(* failed, cached_data, cached_mpegts_urls and last_fetch_time are what    *)
(* they were when the cycle started, the catalog request is the only       *)
(* request the cycle sent, and it wrote no file.                           *)
(***************************************************************************)
C3_FailedFetchChangesNothing ==
    [][\A p \in Threads :
          (pc[p] = "fetch" /\ pc'[p] = "ret") =>
              /\ outcome'[p] = "failed"
              /\ cached_data' = before[p].cached_data
              /\ cached_mpegts_urls' = before[p].cached_mpegts_urls
              /\ last_fetch_time' = before[p].last_fetch_time
              /\ nreq'[p] = 1
              /\ fetched'[p] = << >>
              /\ UNCHANGED files]_vars

C5_PlaylistEntriesHaveNameAndUrl ==
    PlaylistSent =>
        LET body == resp.body
        IN  \A i \in DOMAIN body :
                /\ body[i].kind = "header" => i = 1
                /\ body[i].kind = "url" =>
                       i > 1 /\ body[i - 1].kind = "extinf"
                       /\ body[i - 1].src = body[i].src
                /\ body[i].kind = "extinf" =>
                       LET stream == StreamAt(cached_data, body[i].src)
                       IN  /\ stream.name # ""
                           /\ stream.id # None
                           /\ Str(stream.id) \in DOMAIN cached_mpegts_urls
                           /\ i < Len(body)
                           /\ body[i + 1].kind = "url"
                           /\ body[i + 1].url = cached_mpegts_urls[Str(stream.id)]

\* two Streams, one with an entry and one left out for its name or its URL
C5_Witness ==
    /\ PlaylistSent
    /\ Len(Items(cached_data)) = 2
    /\ Cardinality(Records(resp.body, "extinf")) = 1
    /\ \E i \in DOMAIN Items(cached_data) :
           LET item == Items(cached_data)[i]
           IN  /\ RecordsOf(resp.body, "extinf", item.src) = {}
               /\ \/ item.stream.name = ""
                  \/ item.stream.id = None
                  \/ Str(item.stream.id) \notin DOMAIN cached_mpegts_urls

(***************************************************************************)
(* C6: the guide holds exactly one channel record for each channel         *)
(* identifier of a Stream with a name, and no other channel record; a      *)
(* Stream whose identifier an earlier Stream had adds no record but, at    *)
(* most, one programme record.                                             *)
(***************************************************************************)
C6_OneChannelPerIdentifier ==
    GuideSent =>
        LET body == resp.body
            items == Items(cached_data)
            named == Named(cached_data)
            ids == { XmltvChannelId(items[i].stream) : i \in named }
        IN  /\ \A id \in ids :
                   Cardinality({ j \in Records(body, "channel") : body[j].id = id }) = 1
            /\ \A j \in Records(body, "channel") : body[j].id \in ids
            /\ \A i \in named :
                   (\E e \in named :
                        /\ e < i
                        /\ XmltvChannelId(items[e].stream) = XmltvChannelId(items[i].stream))
                   => /\ RecordsOf(body, "channel", items[i].src) = {}
                      /\ Cardinality(RecordsOf(body, "programme", items[i].src)) <= 1

\* two Streams of one identifier: one channel record, two programme records
C6_Witness ==
    /\ GuideSent
    /\ Cardinality(Named(cached_data)) = 2
    /\ Cardinality(Records(resp.body, "channel")) = 1
    /\ Cardinality(Records(resp.body, "programme")) = 2

(***************************************************************************)
(* C7: a Stream with a name has a programme record exactly when both its   *)
(* start and its end time format to a timestamp; the record then carries   *)
(* both; without one of them the Stream has no programme record and keeps  *)
(* the channel record it added.  A missing, null or zero time formats to   *)
(* the empty string.                                                       *)
(***************************************************************************)
C7_ProgrammeNeedsBothTimes ==
    /\ format_xmltv_time(None) = ""
    /\ format_xmltv_time(0) = ""
    /\ GuideSent =>
           LET body == resp.body
               items == Items(cached_data)
               named == Named(cached_data)
           IN  \A i \in named :
                   LET stream == items[i].stream
                       start == format_xmltv_time(stream.starts_at)
                       stop == format_xmltv_time(stream.ends_at)
                       programmes == RecordsOf(body, "programme", items[i].src)
                       first == \A e \in named :
                                    e < i => XmltvChannelId(items[e].stream)
                                                 # XmltvChannelId(stream)
                   IN  /\ programmes # {} <=> (start # "" /\ stop # "")
                       /\ Cardinality(programmes) <= 1
                       /\ \A j \in programmes :
                              body[j].start = start /\ body[j].stop = stop
                       /\ first => Cardinality(RecordsOf(body, "channel", items[i].src)) = 1

\* a Stream without an end time: a channel record and no programme record
C7_Witness ==
    /\ GuideSent
    /\ \E i \in Named(cached_data) :
           LET item == Items(cached_data)[i]
           IN  /\ item.stream.starts_at = T1
               /\ item.stream.ends_at \in {None, BadTime}
               /\ RecordsOf(resp.body, "channel", item.src) # {}
               /\ RecordsOf(resp.body, "programme", item.src) = {}

(***************************************************************************)
(* C8: both generators give a Stream the same identifier, which its name   *)
(* and start time fix; the tvg-id of every playlist entry is the id of a   *)
(* channel record of the guide of the same cache state, and the channel of *)
(* every programme record is the id of a channel record of its guide.      *)
(***************************************************************************)
C8_SameIdentifierInBoth ==
    LET items == Items(cached_data)
    IN  /\ \A i \in DOMAIN items :
               M3uTvgId(items[i].stream) = XmltvChannelId(items[i].stream)
        /\ \A i, j \in DOMAIN items :
               (/\ items[i].stream.name = items[j].stream.name
                /\ \/ items[i].stream.starts_at = items[j].stream.starts_at
                   \/ (~Truthy(items[i].stream.starts_at)
                       /\ ~Truthy(items[j].stream.starts_at)))
               => XmltvChannelId(items[i].stream) = XmltvChannelId(items[j].stream)
        /\ PlaylistSent =>
               LET guide == XmltvContent(cached_data)
               IN  \A i \in Records(resp.body, "extinf") :
                       \E j \in Records(guide, "channel") :
                           guide[j].id = resp.body[i].tvg_id
        /\ GuideSent =>
               \A i \in Records(resp.body, "programme") :
                   \E j \in Records(resp.body, "channel") :
                       resp.body[j].id = resp.body[i].channel

\* a playlist with two entries of one tvg-id, for Streams of different ids
C8_Witness ==
    /\ PlaylistSent
    /\ \E i, j \in Records(resp.body, "extinf") :
           /\ i # j
           /\ resp.body[i].tvg_id = resp.body[j].tvg_id
           /\ StreamAt(cached_data, resp.body[i].src).id
                  # StreamAt(cached_data, resp.body[j].src).id

(***************************************************************************)
(* C9: a guide request with the forced-refresh signal renders after its    *)
(* refresh cycle: from the Catalog the cycle fetched if the catalog fetch  *)
(* succeeded; from the Snapshot of before the request, which is still the  *)
(* cache, if it failed; and it answers 503 only while no Catalog is        *)
(* cached.                                                                 *)
(***************************************************************************)
C9_ForcedGuideUsesItsOwnRefresh ==
    [][\A p \in Web :
          (pc[p] = "ret" /\ task[p] = "epg_force"
           /\ resp'.route = "epg" /\ resp'.thread = p)
          => /\ outcome[p] = "ok" =>
                    /\ resp'.status = 200
                    /\ resp'.body = XmltvContent(data[p])
             /\ outcome[p] = "failed" =>
                    /\ cached_data = before[p].cached_data
                    /\ cached_mpegts_urls = before[p].cached_mpegts_urls
                    /\ resp'.status = XmltvStatus(before[p].cached_data)
                    /\ DataTruthy(before[p].cached_data) =>
                           resp'.body = XmltvContent(before[p].cached_data)
             /\ resp'.status = 503 => ~DataTruthy(cached_data)]_vars

(***************************************************************************)
(* C10: the playlist endpoint answers 503 exactly when no Catalog is       *)
(* cached, 500 exactly when a Catalog is cached and the token is missing,  *)
(* and 200 with the playlist otherwise; a 503 or 500 carries no playlist   *)
(* line, and the request changes neither the cache nor the files.          *)
(***************************************************************************)
C10_PlaylistStatus ==
    [][resp'.route = "m3u" =>
          /\ resp'.status \in {200, 500, 503}
          /\ resp'.status = 503 <=> ~DataTruthy(cached_data)
          /\ resp'.status = 500 <=> (DataTruthy(cached_data) /\ AUTH_TOKEN = "")
          /\ resp'.status = 200 <=> (DataTruthy(cached_data) /\ AUTH_TOKEN # "")
          /\ resp'.status # 200 => resp'.body = << >>
          /\ resp'.status = 200 =>
                 /\ resp'.body # << >>
                 /\ resp'.body[1] = [kind |-> "header", text |-> "#EXTM3U"]
          /\ UNCHANGED <<globals, files>>]_vars

\* a Catalog is cached and the token is missing
C10_Witness ==
    /\ resp.route = "m3u"
    /\ resp.status = 500
    /\ DataTruthy(cached_data)
    /\ Items(cached_data) # << >>

(***************************************************************************)
(* C11: when a write of one of the two files fails in a cycle whose        *)
(* catalog fetch succeeded, fetch_and_cache_data goes on to return, and    *)
(* cached_data, cached_mpegts_urls and last_fetch_time are those of this   *)
(* cycle: the Catalog it fetched, the dict it created and filled, and a   *)
(* time taken after it started.                                            *)
(***************************************************************************)
C11_FailedSaveKeepsNewSnapshot ==
    [][\A p \in Threads :
          (\/ pc[p] = "save1" /\ pc'[p] = "ret"
           \/ /\ pc[p] = "save2"
              /\ pc'[p] = "ret"
              /\ mpegts_cache_file' # [state |-> "ok", content |-> cached_mpegts_urls])
          => /\ pc'[p] = "ret"
             /\ outcome'[p] = "ok"
             /\ UNCHANGED globals
             /\ cached_data = data[p]
             /\ dataCycle = cycle[p]
             /\ urlsCycle = cycle[p]
             /\ urlsDone
             /\ last_fetch_time > cycle[p]]_vars

(***************************************************************************)
(* C12: get_mpegts_url sends no request and returns None without a token;  *)
(* with a token it sends one request and returns a URL exactly when the    *)
(* response is a JSON document with success true, data present and a       *)
(* non-empty vip_mpegts, and the URL is that value; every other response   *)
(* gives None.  In a cycle: one request per call made with a token, none   *)
(* without, and every URL kept is one the API sent.                        *)
(***************************************************************************)
C12_DetailFetcher ==
    /\ \A response \in DetailResponses :
           /\ ~DetailRequestSent("")
           /\ get_mpegts_url("", response) = ""
           /\ DetailRequestSent("token")
           /\ get_mpegts_url("token", response) # ""
                  <=> /\ response.kind = "json"
                      /\ response.success
                      /\ response.has_data
                      /\ response.vip_mpegts # ""
           /\ get_mpegts_url("token", response) # ""
                  => get_mpegts_url("token", response) = response.vip_mpegts
    /\ \A p \in Threads :
           /\ \A i \in DOMAIN fetched[p] : fetched[p][i].url \in Urls
           /\ AUTH_TOKEN = "" => fetched[p] = << >>
           /\ pc[p] \in {"loop", "save1", "save2", "ret"} /\ outcome[p] = "ok"
                  => LET called == { i \in 1..(idx[p] - 1) :
                                        Truthy(iter[p][i].stream.id) }
                     IN  nreq[p] = 1 + (IF AUTH_TOKEN = "" THEN 0
                                        ELSE Cardinality(called))

\* a cycle's one call with a token got a URL; nothing was asked for the
\* Stream without an id
C12_Witness ==
    \E p \in Threads :
        /\ pc[p] = "save1"
        /\ AUTH_TOKEN # ""
        /\ nreq[p] = 2
        /\ Len(fetched[p]) = 1
        /\ Len(iter[p]) = 2

(***************************************************************************)
(* C13: in the guide every channel record stands before every programme    *)
(* record.                                                                 *)
(***************************************************************************)
C13_ChannelsBeforeProgrammes ==
    GuideSent =>
        \A i \in Records(resp.body, "programme") :
            \A j \in Records(resp.body, "channel") : j < i

(***************************************************************************)
(* C14: every call of fetch_and_cache_data returns to its caller whatever  *)
(* fails in it, and from its call to its return it sends at most one       *)
(* request more than the Catalog it fetched has Streams (one request, the  *)
(* catalog request, if that fetch failed).                                 *)
(***************************************************************************)
C14_RequestsBoundedByCatalog ==
    \A p \in Threads : nreq[p] <= 1 + Len(Items(data[p]))

(***************************************************************************)
(* C15: for the Snapshot of scenario 1 the playlist is the header, one     *)
(* #EXTINF line with group-title "NBA" and the line http://x/stream.ts,    *)
(* and the guide is one channel record and one programme record.  As the   *)
(* spec states it, the programme has start "20231114222013 +0000" and stop *)
(* "20231115010013 +0000" (C15_AsStated); format_xmltv_time gives          *)
(* "20231114221320 +0000" and "20231115010000 +0000" (C15_Scenario1).      *)
(***************************************************************************)
Scenario1 == cached_data = Scenario1Catalog /\ cached_mpegts_urls = Scenario1Urls

Scenario1Outputs(start, stop) ==
    LET m3u == M3uContent(cached_data, cached_mpegts_urls)
        guide == XmltvContent(cached_data)
    IN  /\ PlaylistSent => resp.body = m3u
        /\ GuideSent => resp.body = guide
        /\ Len(m3u) = 3
        /\ m3u[1] = [kind |-> "header", text |-> "#EXTM3U"]
        /\ m3u[2].kind = "extinf"
        /\ m3u[2].group_title = "NBA"
        /\ m3u[3] = [kind |-> "url", url |-> "http://x/stream.ts", src |-> <<1, 1>>]
        /\ Len(guide) = 2
        /\ Cardinality(Records(guide, "channel")) = 1
        /\ \E j \in Records(guide, "programme") :
               guide[j].start = start /\ guide[j].stop = stop

C15_Scenario1 ==
    Scenario1 => Scenario1Outputs("20231114221320 +0000", "20231115010000 +0000")

C15_AsStated ==
    Scenario1 => Scenario1Outputs("20231114222013 +0000", "20231115010013 +0000")

\* the guide of scenario 1 has been sent
C15_Witness == Scenario1 /\ GuideSent /\ AUTH_TOKEN # ""

(***************************************************************************)
(* C16: a refresh cycle that runs after the one before it has returned     *)
(* leaves a cache that is a function of the responses it was given, and of *)
(* nothing that was cached before: cached_data is the Catalog it fetched,  *)
(* cached_mpegts_urls is the dict its detail responses build, and a file   *)
(* it wrote holds the same content.  A second cycle given the same         *)
(* responses therefore leaves what the first one left; last_fetch_time is  *)
(* the only global that tells them apart.                                  *)
(***************************************************************************)
\* the dict that the detail responses of one cycle build, later ones last
UrlsFrom(catalog, got) ==
    LET KeyOf(f) == Str(StreamAt(catalog, f.src).id)
        Last(k) == CHOOSE i \in DOMAIN got :
                       /\ KeyOf(got[i]) = k
                       /\ \A j \in DOMAIN got : KeyOf(got[j]) = k => j <= i
    IN  [k \in { KeyOf(got[i]) : i \in DOMAIN got } |-> got[Last(k)].url]

C16_RefreshIdempotent ==
    \A p \in Threads :
        CycleComplete(p) =>
            /\ cached_data = data[p]
            /\ cached_mpegts_urls = UrlsFrom(data[p], fetched[p])
            /\ (cacheFileCycle = cycle[p] /\ cache_file.state = "ok")
                   => cache_file.content = data[p]
            /\ (mpegtsFileCycle = cycle[p] /\ mpegts_cache_file.state = "ok")
                   => mpegts_cache_file.content = UrlsFrom(data[p], fetched[p])

\* a second cycle was given what the first one was given: the files, which
\* the first cycle wrote and the second could not open, hold what the
\* second cycle left in memory, and only the timestamp has moved
C16_Witness ==
    \E p \in Threads :
        /\ CycleComplete(p)
        /\ cycle[p] = 2
        /\ cacheFileCycle = 1
        /\ mpegtsFileCycle = 1
        /\ cache_file = [state |-> "ok", content |-> cached_data]
        /\ mpegts_cache_file = [state |-> "ok", content |-> cached_mpegts_urls]
        /\ cached_mpegts_urls # EmptyDict
        /\ last_fetch_time = 3

(***************************************************************************)
(* C17: the playlist is the #EXTM3U line followed by one entry for each    *)
(* Stream that has a name, an id that `if stream_id` accepts and a URL     *)
(* under str(id) in the cache, and by nothing else; the entries stand in   *)
(* the order of the Catalog, each is an #EXTINF line with the URL line of  *)
(* its Stream right after it, and its group-title is the name of the       *)
(* Category the Stream is in.                                              *)
(***************************************************************************)
C17_OneEntryPerStreamInOrder ==
    PlaylistSent =>
        LET body == resp.body
            items == Items(cached_data)
            eligible == { i \in DOMAIN items :
                             /\ items[i].stream.name # ""
                             /\ Truthy(items[i].stream.id)
                             /\ Str(items[i].stream.id) \in DOMAIN cached_mpegts_urls }
            Place(i) == 2 * Cardinality({ j \in eligible : j <= i })
        IN  /\ Len(body) = 1 + 2 * Cardinality(eligible)
            /\ Records(body, "header") = {1}
            /\ body[1].text = "#EXTM3U"
            /\ \A i \in eligible :
                   LET extinf == body[Place(i)]
                       line == body[Place(i) + 1]
                   IN  /\ extinf.kind = "extinf"
                       /\ extinf.src = items[i].src
                       /\ extinf.tvg_name = items[i].stream.name
                       /\ extinf.tvg_id = M3uTvgId(items[i].stream)
                       /\ items[i].category # AbsentStr
                              => extinf.group_title = items[i].category
                       /\ line.kind = "url"
                       /\ line.url = cached_mpegts_urls[Str(items[i].stream.id)]

\* two Streams of two Categories share a channel identifier and have
\* different URLs: two entries, the one of the first Category first
C17_Witness ==
    /\ PlaylistSent
    /\ Len(resp.body) = 5
    /\ resp.body[2].tvg_id = resp.body[4].tvg_id
    /\ resp.body[2].src = <<1, 1>>
    /\ resp.body[4].src = <<2, 1>>
    /\ resp.body[2].group_title = "NBA"
    /\ resp.body[3].url # resp.body[5].url

(***************************************************************************)
(* C18: when load_from_cache has returned, cached_data and                 *)
(* cached_mpegts_urls hold the documents of the files that exist and are   *)
(* empty otherwise; the initial cycle starts only with no Catalog loaded,  *)
(* and the server starts without a cycle only with the Catalog of the file *)
(* in the cache and no request sent; and once the server has started,      *)
(* last_fetch_time is not 0 exactly when a Catalog is cached.              *)
(***************************************************************************)
C18_Startup ==
    /\ pc["main"] = "boot" =>
           /\ cache_file.state = "absent" => cached_data = NoData
           /\ cache_file.state = "ok" => cached_data = cache_file.content
           /\ mpegts_cache_file.state = "absent" => cached_mpegts_urls = EmptyDict
           /\ mpegts_cache_file.state = "ok" =>
                  cached_mpegts_urls = mpegts_cache_file.content
    /\ (pc["main"] = "fetch" /\ cycle["main"] = 1) => ~DataTruthy(cached_data)
    /\ (Serving /\ ncycles = 0) =>
           /\ cache_file.state = "ok"
           /\ cached_data = cache_file.content
           /\ \A p \in Threads : nreq[p] = 0
    /\ Serving => (last_fetch_time # 0 <=> DataTruthy(cached_data))

(***************************************************************************)
(* C19: after a start with an empty cache, whenever no thread is inside    *)
(* fetch_and_cache_data, every key of cached_mpegts_urls is str(id) of a   *)
(* Stream of cached_data, and the dict is the one that the cycle which     *)
(* assigned cached_data created and filled.                                *)
(***************************************************************************)
C19_QuiescentCacheMatchesCatalog ==
    (\A p \in Threads : ~Refreshing(p)) =>
        /\ \A k \in DOMAIN cached_mpegts_urls :
               \E i \in DOMAIN Items(cached_data) :
                   /\ Truthy(Items(cached_data)[i].stream.id)
                   /\ Str(Items(cached_data)[i].stream.id) = k
        /\ cached_mpegts_urls # EmptyDict => (dataCycle = urlsCycle /\ urlsDone)

(***************************************************************************)
(* C20: in every state, which is every moment at which the process can     *)
(* stop and load_from_cache can run again, if CACHE_FILE and               *)
(* MPEGTS_CACHE_FILE both hold a document, one refresh cycle wrote both    *)
(* (cycle 0 being the run that left the files found at startup).           *)
(***************************************************************************)
C20_FilesOfOneCycle ==
    (cache_file.state = "ok" /\ mpegts_cache_file.state = "ok")
        => cacheFileCycle = mpegtsFileCycle

=============================================================================
